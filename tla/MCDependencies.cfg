SPECIFICATION Spec
CONSTANTS
    exe = exe
    src = src
    inc = inc
    out = out
    man = man
    f0 = f0
    f1 = f1
    f2 = f2
    Paths = {exe, src, inc, out, man}
    Names = {src, inc, out, man}
    Files = {f1, f2}
    Contents = {"a", "b"}
    Missing = Missing
    NoPath = NoPath
    Worlds <- MCWorlds
    Producer = exe
    ManifestAt = man
    Roles = {"source", "binary"}
    Given = {src, inc, out, man}
    Restless = {inc, out}
    Links = {inc}
    ChangeLimit = 2
    CallLimit = 2
INVARIANTS
    DocumentVouchesForInputs
    OutputsApart
CHECK_DEADLOCK FALSE
