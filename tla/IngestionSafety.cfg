\* Two uploads and two resume requests of two-chunk batches, with crashes.
SPECIFICATION Spec
CONSTANTS
  Uploads = {u1, u2}
  Resumes = {r1, r2}
  Chunks = {c1, c2}
  Decisions = {"none", "reject", "edit", "shortEdit"}
SYMMETRY Symmetry
INVARIANTS TypeOK BatchAccounted NoZombieBatch IndexedWasReviewed AuditIsTrue
\* Every call ends, and then nothing is left to do.
CHECK_DEADLOCK FALSE
