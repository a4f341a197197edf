SPECIFICATION Spec
CONSTANTS
    S = S
    C = C
    s1 = s1
    c1 = c1
    c2 = c2
    k = k
    l = l
    Procs <- MCProcs
    Fils <- MCFils
    ProcDe <- MCProcDe
    Canaux <- MCCanaux
    NbSlots = 3
    GenMax = 9
    MaxFile = 2
    Masques <- MCMasques
    Donnes <- MCDonnes
    Attendent <- MCAttendent
    Crees <- MCCrees
    MaxAppels = 4
    Nul = Nul
SYMMETRY MCSymetrie
INVARIANTS
    HandlesFideles
    DroitsBornes
    MessagesConserves
    OrdreDeReception
PROPERTIES
    DroitsHerites
CHECK_DEADLOCK FALSE
