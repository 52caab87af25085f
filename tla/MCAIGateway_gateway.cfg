SPECIFICATION FairSpec
CONSTANTS
    a1 = a1
    a2 = a2
    r1 = r1
    r2 = r2
    llama = llama
    glm = glm
    Accounts = {a1, a2}
    Requests = {r1, r2}
    Models = {llama, glm}
    BuiltinPaidModels = {glm}
    NeuronSoftLimit = 1
    MaxRetryAccounts = 2
    MaxNeurons = 1
    None = None
INVARIANTS
    OvershootBounded
    CallsAccounted
PROPERTIES
    NeverReplayed
    AbandonedEnds
