SPECIFICATION Spec
CONSTANTS
  r1 = r1
  r2 = r2
  k1 = k1
  k2 = k2
  Nulo = Nulo
  Reservas = {r1, r2}
  Unidade <- MCUnidade
  ComCodigo = {r1, r2}
  Contratos = {k1, k2}
  MaxCasos = 2
  Janela = 3
  Teto = 1
  Espera = 2
  MaxQuedas = 1
  Eventos = {"manual", "contrato", "regulariza", "api", "documento", "exclui", "etapa", "libera"}
SYMMETRY MCSimetria
INVARIANTS
  TypeOK
  RajadaRetida
  SucessoDosDoisLados
PROPERTIES
  LiberacaoSegura
  ExclusaoCerta
CHECK_DEADLOCK FALSE
