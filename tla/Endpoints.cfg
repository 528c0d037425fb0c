SPECIFICATION FairSpec
CONSTANTS
  a = a
  b = b
  c1 = c1
  c2 = c2
  r1 = r1
  r2 = r2
  Clients = {a, b}
  Server = Server
  Names = {"ping", "chat", "noreply"}
  Questions <- MCQuestions
  Built <- MCBuilt
  Configurable <- MCConfigurable
  Conns = {c1, c2}
  Owner <- MCOwner
  Name <- MCName
  Receivers = {r1, r2}
  Timed = {r2}
  NoHandler = NoHandler
  Nobody = Nobody
  MaxSends = 2
INVARIANT AnswersMatch
PROPERTY ConversationEnds
PROPERTY ClosedRecvReturns
PROPERTY TimedRecvReturns
