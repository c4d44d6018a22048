SPECIFICATION LinkerSpec
CONSTANTS
    text = text
    main = main
    lib = lib
    user = user
    ring = ring
    twin = twin
    header = header
    first = first
    second = second
    Outputs = {text, main, lib, user, ring, twin, header, first, second}
    Binary = text
    Objects <- MCObjects
    InputLimit = 4
    Scripts <- MCScripts
    Disks <- MCDisks
    AddressSpace = 65536
INVARIANTS
    BanksFillTheirOutput
CHECK_DEADLOCK FALSE
