SPECIFICATION BackendSpec
PROPERTY
  StopsEnd
CHECK_DEADLOCK FALSE
