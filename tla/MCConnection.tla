---------------------------- MODULE MCConnection ----------------------------
(***************************************************************************)
(* Small instances of Transport and of Admission, checked in one run: they   *)
(* share no variable, and in each behaviour one of them moves while the other *)
(* stays as it began.                                                        *)
(***************************************************************************)
EXTENDS Transport, Admission

AllPolicies == {"prefer-aead", "require-aead", "rc4-only"}

\* Every login request: a plain one, and those of HOPE with every list of MACs
\* and of ciphers.
AllOffers == {o \in Offer : ~o.hope => o.macs = {} /\ o.ciphers = {}}

VARIABLE part   \* the one that moves

\* A step of the one, and of the other.
Streams(A) == part = "transport" /\ A /\ UNCHANGED <<part, vars>>
Admits(A) == part = "admission" /\ A /\ UNCHANGED <<part, transportVars>>

ConnectionInit ==
    /\ part \in {"transport", "admission"} /\ TransportInit /\ Init
    /\ part = "admission" => ~tls

ConnectionNext ==
    \/ /\ conn = "login" /\ part = "transport"
       /\ \E o \in Offers : \/ Streams(PlainLogin(o))
                            \/ \E p \in Policies, l \in BOOLEAN : Streams(HopeLogin(o, p, l))
    \/ \E b \in Bodies, r \in Rotations : Streams(Send(b, r))
    \/ Streams(BufferFull) \/ Streams(ReadEvent)
    \/ Streams(DecryptAstray) \/ Streams(DecryptHeader) \/ Streams(DecryptPrefix)
    \/ Streams(DecryptRest) \/ Streams(DecryptDone)
    \/ Streams(Scan) \/ Streams(ScanDone)
    \/ Streams(OpenFrame) \/ Streams(FrameTooLarge) \/ Streams(FramesDone)
    \/ \E ip \in Clients : Admits(Drop(ip)) \/ Admits(Admit(ip)) \/ Admits(Refuse(ip))
    \/ Admits(Tick) \/ Admits(SetBack) \/ Admits(Reload) \/ Admits(Edit)
    \/ Admits(Stop) \/ Admits(Start)

connectionVars == <<part, transportVars, vars>>

ConnectionSpec ==
    /\ ConnectionInit /\ [][ConnectionNext]_connectionVars
    /\ WF_connectionVars(Streams(Handling))
    /\ WF_connectionVars(Admits(Tick)) /\ WF_connectionVars(Admits(Start))
=============================================================================
