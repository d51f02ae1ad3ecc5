-------------------------- MODULE MCSocketFactory --------------------------
(* Instances of SocketFactory for TLC. *)
EXTENDS SocketFactory

\* Ports 1..2 may be held by others; 9 stands for any port the OS picks.
MCPortPool == {1, 2}
MCEphemeral == 9

\* A range of two ports, a range of one, an empty range (min > max) and no
\* range at all.
MCRanges == {<<1, 2>>, <<2, 2>>, <<2, 1>>, <<0, 0>>}

\* A range that starts at port 0, as PortAllocator::SetPortRange accepts.
MCRangesFromZero == {<<0, 2>>}

\* The factory is built by BasicPacketSocketFactory() on a thread rtc does
\* not wrap (Thread::Current() is NULL), by (Thread*) with the thread it is
\* used on, or by (SocketFactory*) with a factory or NULL.
MCCurrentUnwrapped == Null
MCCurrentWrapped == OwnerThread
MCThreadArgs == {OwnerThread}
MCFactoryArgs == {GivenFactory, Null}
MCFactoryGiven == {GivenFactory}

=============================================================================
