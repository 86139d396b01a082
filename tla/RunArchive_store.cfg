SPECIFICATION Spec
CONSTANTS
  Origins = {"local", "archived", "legacy"}
  Readers = {r1}
  MaxEvents = 2
  MaxVersions = 2
  MaxCrashes = 1
INVARIANTS
  CapturesAreExact
  UnsavedDataIsQueued
PROPERTIES
  DeletionIsFinal
