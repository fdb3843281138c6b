SPECIFICATION Spec
CONSTANTS
  r1 = r1  r2 = r2  r3 = r3  e1 = e1  e2 = e2
  Requests = {r1, r2, r3}  NoRequest = NoRequest
  Turns = {t1}  NoTurn = NoTurn
  Entitlements = {e1, e2}  NoEntitlement = NoEntitlement
  Unlimited = Unlimited
  TotalUses <- MCTotalUses  ExpiresAt <- MCExpiresAt
  Windows <- MCWindows  Span <- MCSpan  Limit <- MCLimit
  TurnWindow = 1  TurnMax = 2
  Ladder = {1, 3}  Tokens = {0, 2}
  MaxTime = 1
SYMMETRY Sym
CHECK_DEADLOCK FALSE
INVARIANTS OneCharge LoneRequestsHoldWindows
PROPERTIES FreeRoundsBounded ChargesAreRecorded
