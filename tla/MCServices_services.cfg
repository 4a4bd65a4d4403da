SPECIFICATION Spec
INVARIANTS ServicesTypeOK RadiosAreBelieved SecretsAreKept MessagesArrive ScreensAreSound FilesAreWhole RecordsAreWhole EndsAreReached
PROPERTIES LeastWantedGoes
CHECK_DEADLOCK FALSE
