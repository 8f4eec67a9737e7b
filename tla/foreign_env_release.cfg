CONSTANTS
    e1 = e1
    e2 = e2
    c1 = c1
    c2 = c2
    NoEnv = NoEnv
    Envs <- MCEnvs
    Clients <- MCClients
    MaxConnect = 3
SPECIFICATION Spec
INVARIANT ConnectionFollowsEnvs
