SPECIFICATION PPFairSpec
CONSTANT ITERATIONS = 40
INVARIANT NobodySleepsOnABall
PROPERTY ImplementsAlternation
