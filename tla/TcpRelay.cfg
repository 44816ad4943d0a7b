SPECIFICATION FairSpec
CONSTANTS
  TCP_WND = 3
  TCP_SND_BUF = 2
  CLIENT_SOCKS_RECV_BUF_SIZE = 3
INVARIANTS
  FlowBalanced
  NoUseAfterClose
  NoLostWakeup
PROPERTIES
  NothingDropped
  Contracts
  Progress
