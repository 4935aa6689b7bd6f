SPECIFICATION PartSpec
CONSTANTS
  m1 = m1
  m2 = m2
  m3 = m3
  m4 = m4
  c1 = c1
  c2 = c2
  Monitors = {m1, m2, m3}
  ApiCallers = {c1}
  Supervisor = Supervisor
  AppShutdown = AppShutdown
  NoMonitor = NoMonitor
  b1 = b1
  p1 = p1
  Accounts <- MCAccounts
  BrokerOf <- MCBrokerOf
  Monitor = Monitor
  Pages = {p1}
  AccountOf <- MCAccountOf
  Nobody = Nobody
  MaxErrors = 1
INVARIANTS
  OneMonitor
