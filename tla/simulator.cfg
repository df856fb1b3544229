SPECIFICATION Spec
CONSTANTS
  c1 = c1  c2 = c2
  Cameras <- TwoCameras
  Planes <- ThePlanes
  Dependencies <- Paths
  Settings <- Levels
  Camera = "camera"
  Mirror = "mirror"
  Exposures <- Cadences
  MaxRequests = 3
  MaxTime = 4
SYMMETRY Symmetric
INVARIANTS OneExposure KeepsExposing ReadoutExact CacheCurrent
