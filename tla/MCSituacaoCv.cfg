SPECIFICATION FairSpec
CONSTANTS
  t1 = t1
  t2 = t2
  Minuto = 1
  MaxLinhas = 4
  ReservaDe <- MCReservaDe
  Resposta <- MCResposta
  Ticks = {t1, t2}
  LimitePorTick = 2
  SafetyMin = 2
  MaxAgora = 11
  Agendamentos = {3, 4}
  MaxFalhas = 1
  MaxQuedas = 1
INVARIANTS
  TypeOK
  PeloMenosUmaVez
PROPERTIES
  EtapaDepoisDoLote
  OrdemDasEtapas
  TodaEtapaAplicada
CHECK_DEADLOCK FALSE
