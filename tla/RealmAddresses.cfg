SPECIFICATION Spec
CONSTANTS
  lan = lan
  home = home
  netmask = netmask
  name = name
  NetBit = {3, 4}
  HostBit = {0, 1, 2}
  LoopbackNet = {3, 4}
  Dotted = {lan, home, netmask}
  Name = {name}
  HostIp <- MCHostIp
PROPERTY BestAddress
