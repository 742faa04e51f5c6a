SPECIFICATION Spec
CONSTANTS
  Absent = Absent
  DefaultTempo = 0
  MaxEntries = 2
  Scale = 2
  MinGap = 2
  Start <- Project
  Kinds = {"drag", "resize", "fade", "lasso", "track", "device", "slot", "note", "shape", "point",
           "fader"}
  Orders = {"delete", "duplicate", "split", "add device", "remove device", "knob", "add track", "tempo", "copy clip",
            "delete clip", "clip domain", "place", "add midi", "add slot", "delete track",
            "click", "gain", "add scene", "copy scene", "delete scene", "add note",
            "delete notes", "wheel", "add point", "bypass lane", "delete lane"}
  RemoteTypes = {"deleteClip", "setClipStart", "deleteTrack", "setTrackOrder",
                 "removeProcessor", "moveProcessor", "deleteScene", "transfer", "exchange"}
  Value = {0, 1, 2}
  Level = {0, 1}
  Length = {1, 2}
  PointInPeace = TRUE
  MaxActs = 2
  MaxMoves = 2
CHECK_DEADLOCK FALSE
INVARIANTS
  GestureIsOneUndo
  ShownAsIs
  MainInLot
PROPERTY NothingLost
