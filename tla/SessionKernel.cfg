SPECIFICATION MCSpec
CONSTANTS
  k1 = k1  k2 = k2
  Keys = {k1, k2}  NoKey = NoKey
  Backend = "file"
  ReplyKinds = {"assistant"}
  KeepLast = 2  MaxId = 5  MaxReply = 2  MaxFaults = 1  FewIds = 3
CHECK_DEADLOCK FALSE
INVARIANTS OneActive TurnInActive TreeIsSound
PROPERTIES PathFollowsTurn HistoryGrows TailEnds
