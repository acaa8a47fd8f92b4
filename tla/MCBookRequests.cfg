SPECIFICATION Spec
CONSTANTS
  c1 = c1
  c2 = c2
  c3 = c3
  c4 = c4
  anna = anna
  ben = ben
  radha = radha
  nobody = nobody
  gita = gita
  bhagavatam = bhagavatam
  Calls = {c1, c2, c3, c4}
  Traffic <- MCTraffic
  Users = {anna, ben, radha}
  Books = {gita}
  Lower <- MCLower
  Lasting <- MCLasting
  Nobody = nobody
  MineLimit = 2
  HistoryLimit = 2
INVARIANTS TokenDecides FulfilledByAdmin MineComplete
CHECK_DEADLOCK FALSE
