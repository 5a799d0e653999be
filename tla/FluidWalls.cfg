\* One particle in a grid of two blocks: 3 by 2 by 3 cells have one that only the
\* far y wall touches.
SPECIFICATION Spec
CONSTANTS
  NX = 3
  NY = 2
  NZ = 3
  XDIVS = 1
  ZDIVS = 2
  Particles = {1}
  PARTICLES_PER_CELL = 1
  Frames = 1
INVARIANT WallsAct
