SPECIFICATION Spec
CONSTANTS
  CommandLines <- MCCommandLines
  CatalogFiles <- MCCatalogFiles
  SignedFiles <- MCSignedFiles
  SettingsFiles <- MCSettingsFiles
  MaxEdits = 1
  MaxFired = 1
INVARIANTS TypeOK FollowsScript ExitIsPolicyNeutral ManifestIsPromise StampNamesTheCatalog
CHECK_DEADLOCK FALSE
