SPECIFICATION Spec
CONSTANTS
  Procs = {a, b}
  Values = {v, w}
  SCHED_SPI = spi72
  TIMER_PPI = ppi30
  Intids = {spi72, ppi30}
  Spurious = spurious
  Cpus <- Cpus_
  Frames <- Frames_
INVARIANTS ResumesOwn InterruptsEnded HandlerRegistered NoPokeStolen
CHECK_DEADLOCK FALSE
PROPERTIES RefinesEntry PokeTaken WaitServed
