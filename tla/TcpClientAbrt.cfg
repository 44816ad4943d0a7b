SPECIFICATION Spec
CONSTANTS
  TCP_WND = 2
  TCP_SND_BUF = 1
  CLIENT_SOCKS_RECV_BUF_SIZE = 1
PROPERTY AbrtOnlyAfterAbort
