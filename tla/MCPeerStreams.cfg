CONSTANTS
    Stream = {s1, s2}
    Egress = {e1, e2}
    Ingress = 3
    HeaderSize = 2
    MaxUnits = 4
SPECIFICATION Spec
INVARIANTS MappedIsWhole MappedIsOpen OutIsPrefix
SYMMETRY Alike
