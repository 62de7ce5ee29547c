--------------------------- MODULE MCHwmonDriver ---------------------------
(***************************************************************************)
(* HwmonDriver for TLC: two threads and the calls that take every branch   *)
(* of HwmonDeviceControl.  Two threads are enough for every conflict on    *)
(* the spin lock, the port pair and the device's reference count.          *)
(***************************************************************************)
EXTENDS HwmonDriver

CONSTANTS t1, t2

MCThreads == {t1, t2}

BaseRequest == [code |-> "OTHER", inLen |-> 0, outLen |-> 0, msr |-> 0,
                base |-> 0, bus |-> 0, device |-> 0, function |-> 0,
                offset |-> 0]

Msr(m, in, out) == [BaseRequest EXCEPT !.code = "READ_MSR", !.msr = m,
                                       !.inLen = in, !.outLen = out]

Pci(dev, fn, off) == [BaseRequest EXCEPT !.code = "READ_PCI_CONFIG",
    !.inLen = 4, !.outLen = 4, !.device = dev, !.function = fn, !.offset = off]

Ecam(in, bus, dev, off) == [BaseRequest EXCEPT !.code = "READ_PCIE_ECAM",
    !.inLen = in, !.outLen = 4, !.bus = bus, !.device = dev, !.offset = off]

\* One segment with the buses 0 and 1.
MCMcfg == {[base |-> 0, startBus |-> 0, endBus |-> 1]}

\* An unknown code, a buffer one byte short on either side, an MSR that is
\* not whitelisted / whitelisted but absent / readable, two configuration
\* addresses (one whose device number needs masking, one unaligned), the
\* ECAM offsets on both sides of the limits of driver and header, and a bus
\* that the segment does not have.
MCRequests ==
    {BaseRequest, Msr(16, 4, 7), Msr(17, 4, 8), Msr(433, 4, 8), Msr(16, 4, 8),
     Pci(33, 0, 4), Pci(2, 1, 11), Ecam(12, 1, 2, 0),
     Ecam(13, 1, 2, 4092), Ecam(13, 1, 2, 4093), Ecam(13, 1, 2, 4096),
     Ecam(13, 1, 32, 0), Ecam(13, 2, 2, 0)}

MCOsAddress == <<0, 31, 0, 0>>

=============================================================================
