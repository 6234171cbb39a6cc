\* Headers of two bytes and requests of one to four: a bucket of three small
\* blocks, a wilderness nearly as long, blocks too short to split.
SPECIFICATION Spec
CONSTANTS
  MAXMEMHEAP = 24
  OSALMEM_HDRSZ = 2
  OSALMEM_MIN_BLKSZ = 4
  OSALMEM_SMALL_BLKSZ = 4
  OSALMEM_SMALLBLK_BUCKET = 10
  Sizes = {1, 2, 4}
  NULL = NULL
INVARIANTS TypeOK FirstFree
PROPERTIES RefusedOnlyFull ImplementsHeap
