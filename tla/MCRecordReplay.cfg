SPECIFICATION Spec
CONSTANTS
    Conns = {c1, c2}
    Tokens <- MCTokens
    AppCommands <- MCAppCommands
    RedisReplies <- MCRedisReplies
    MaxCommands = 3
    MaxDamaged = 2
INVARIANTS FirstReplyReproduced DamageStaysOnConnection
SYMMETRY MCSymmetry
