SPECIFICATION FairSpec
CONSTANTS
  k1 = k1  k2 = k2  k3 = k3  b3 = b3
  Keys = {k1, k2, k3, b3}
  Data = {1, 2}
  Absent = Absent
  Copy <- CopyOf
  HashBound = 3
  MinCapacity = 2
  MaxCapacity = 8
  Uses <- AllUses
PROPERTIES IsMap KeysStay InsertEnds
