CONSTANTS
  CapDest = CapDest
  Aperture = Aperture
  RemoteMode = RemoteMode
  EventMode = EventMode
  OtherEosOp = OtherEosOp
  PropCodes <- MCQueueCodes
  GenericOps <- MCGenericOps
  CaptureDestination = CapDest
  SetRemoteMode = RemoteMode
  SetEventMode = EventMode
  MaxSets = 11
  MaxLiveview = 16

SPECIFICATION Spec

INVARIANT TypeOK
INVARIANT NoChangeLost
