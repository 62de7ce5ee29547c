CONSTANTS
    PCI_MAX_DEVICES = 2
    PCI_MAX_RESOURCES = 2
    MaxPresent = 4
    MaxDescriptors = 4

SPECIFICATION PciSpec

\* pci_enumerate ends.
CHECK_DEADLOCK FALSE

INVARIANT
    NoDoubleFree
