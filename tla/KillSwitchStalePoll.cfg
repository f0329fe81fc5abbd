SPECIFICATION KillSwitchSpec
CONSTANTS
    Request = {r1}
    MaxShell = 0
    MaxFsFail = 0
INVARIANT HaltStands
