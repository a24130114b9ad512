SPECIFICATION Spec
CONSTANTS
  r1 = r1
  r2 = r2
  k1 = k1
  k2 = k2
  Nulo = Nulo
  Reservas = {r1}
  Unidade <- MCUnidade
  ComCodigo = {r1}
  Contratos = {k1}
  MaxCasos = 2
  Janela = 1
  Teto = 1
  Espera = 1
  MaxQuedas = 0
  Eventos = {"libera"}
PROPERTIES
  BarradaEmPendencia
CHECK_DEADLOCK FALSE
