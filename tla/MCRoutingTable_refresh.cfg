SPECIFICATION Spec
CONSTANTS
  Bytes = 2
  ByteBits = 2
  Local <- MCLocal
  Peers <- MCPeers
  Addrs = {{e1}}
  K = 2
  Maintainers = {}
INVARIANT RefreshReachesEveryone
