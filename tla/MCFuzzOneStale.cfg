SPECIFICATION Spec
CONSTANTS
    BITS = 5
    ARITH_MAX = 4
    interesting_8 <- MCInteresting8
    interesting_16 <- MCInteresting16
    interesting_32 <- MCInteresting32
    tolower <- MCLower
    extras <- MCExtras
    Cases <- MCStaleCases
    Targets <- MCTargets
    UseShmem = FALSE
    no_arith = FALSE
    max_det_extras = 1
    TRIM_MIN_BYTES = 1
    TRIM_START_STEPS = 4
    TRIM_END_STEPS = 8
    EFF_MAP_SCALE2 = 1
    EFF_MIN_LEN = 3
    EFF_MAX_PERC = 70
    MIN_AUTO_EXTRA = 3
    MAX_AUTO_EXTRA = 4
    USE_AUTO_EXTRAS = 2
    MAX_AUTO_EXTRAS = 4
    Scores = {0, 100}
    MAX_FILE = 8
    HAVOC_BLK_SMALL = 1
    HAVOC_BLK_MEDIUM = 2
    HAVOC_BLK_LARGE = 2
    HAVOC_BLK_XL = 3
    HAVOC_CYCLES = 1
    HAVOC_CYCLES_INIT = 2
    HAVOC_MIN = 1
    SPLICE_HAVOC = 1
    SPLICE_CYCLES = 1
    havoc_max_mult = 1
    havoc_div = 1
    havoc_stack_pow2 = 1
    ExtraLens = {2}
    PartnerLens = {4, 6}
CHECK_DEADLOCK FALSE
INVARIANT TokensReachEffects
