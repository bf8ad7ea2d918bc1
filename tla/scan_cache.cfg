\* Two threads, seventeen files, three levels of recursion, a cache of three
\* entries; seven settings of the limits and of the files submitted.
SPECIFICATION HSpec
CONSTANTS
  t1 = t1  t2 = t2  crate = crate  box = box  zip = zip  deep = deep  hit = hit
  disk = disk  tar = tar  doc = doc  post = post  mail = mail  fp = fp  note = note
  setup = setup  pe = pe  exe = exe  stub = stub  tiny = tiny  NoFile = NoFile
  Threads = {t1, t2}
  Files = {crate, box, zip, deep, hit, disk, tar, doc, post, mail, fp, note, setup, pe, exe, stub, tiny}
  Contains <- Nested
  Size <- Sizes
  Embedded = {pe}
  Late = {stub}
  Normalised = {post, doc}
  Signature = {hit, fp, pe, stub}
  FalsePositive = {fp, setup, exe}
  Heuristic = {note}
  MaxRec = 3
  Configs <- AllConfigs
  NODES = 3
SYMMETRY ThreadSymmetry
INVARIANTS FmapInBounds CacheTransparent NothingMissed
