CONSTANTS
  Volume = {stick, disc}
  MaxMessages = 3
  MaxProxies = 2
SPECIFICATION Spec
PROPERTY UnlockMounts
