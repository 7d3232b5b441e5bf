SPECIFICATION FairScannerSpec
CONSTANTS
  MaxMounts = 3
  Nobody = Nobody
CHECK_DEADLOCK FALSE
INVARIANT ScannerTypeOK
INVARIANT OneScanPerOpening
INVARIANT CleanupSafe
PROPERTY NoLateScan
PROPERTY CameraReleased
