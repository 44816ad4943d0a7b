SPECIFICATION GatewaySpec
CONSTANTS
  Ports = {1, 2}
  Servers = {53, 54}
  Ids = {1, 2}
  MaxLost = 2
CONSTRAINT FewLost
INVARIANT GatewayIInv
PROPERTY AnswerAttributed
