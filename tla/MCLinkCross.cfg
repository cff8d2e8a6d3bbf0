SPECIFICATION Spec
CONSTANTS
    alpha = alpha
    beta = beta
    c1 = c1
    c2 = c2
    None = None
    Servers <- MCServers
    Conns <- MCBoth
    Dialer <- MCCrossDialer
    MaxFailures = 0
INVARIANTS OneRecordPerServer
CHECK_DEADLOCK FALSE
