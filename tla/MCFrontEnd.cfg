\* Two activations of one action, which is updated once; one restart, up to two
\* replies to each request; assertions compiled out.
SPECIFICATION FFairSpec
CONSTANTS
  a1 = a1
  a2 = a2
  tid1 = tid1
  tid2 = tid2
  Act = {a1, a2}
  Tid = {tid1, tid2}
  TidOf <- MCTidOf
  HealthTest = {}
  MaxReplies = 2
  MaxRestarts = 1
  NDEBUG = TRUE
  None = None
  Action = {"action"}
  ActionOf <- MCActionOf
  MaxVersion = 2
  Key <- MCKey
  KeyOf <- MCKeyOf
INVARIANTS
  CompletedOnce
  FirstReplyFound
  FTypeOK
  NeverOlder
  OneCode
PROPERTIES
  AnswerDelivered
