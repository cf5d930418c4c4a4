SPECIFICATION FairSpec
CONSTANTS
  p = p q = q a = a b = b
  Absent = Absent
  NoJournal = NoJournal
  NoPath = NoPath
  Paths = {p, q}
  Contents = {a, b}
  Local <- MCLocal
  Remote <- MCRemote
  MaxVersion = 2
  MaxEdits = 1
  MaxFaults = 2
INVARIANTS NoOrphanBackup NoQuietEditLost RollbackRestores
PROPERTIES CleanMeansMaterialized JournalIsResolved
