SPECIFICATION Spec
CONSTANTS
  emissao = emissao
  cancelamento = cancelamento
  verificacao = verificacao
  Owners = {emissao, cancelamento, verificacao}
  Ninguem = Ninguem
  Insistentes = {emissao, cancelamento}
  Ttl <- MCTtl
  MaxEspera = 1
  MaxNow = 6
INVARIANTS
  TypeOK
  ExclusaoNoPrazo
PROPERTIES
  SoLiberaOSeu
  ImplementaLease
