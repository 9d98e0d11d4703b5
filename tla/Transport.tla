------------------------------ MODULE Transport ------------------------------
(***************************************************************************)
(* One connection from its login on: which cipher the HOPE negotiation      *)
(* agrees on (hotline/hope.c), and how the bytes that arrive, cut anywhere,  *)
(* become transactions again (process_client_data in hotline/server.c,       *)
(* hl_transaction_scan, the incremental RC4 decryption, the AEAD frames).    *)
(*                                                                         *)
(* A byte is named by its transaction, its offset and how it is encrypted:   *)
(* by position `pos' of the key stream after `gen' key rotations, or in the   *)
(* frame with nonce counter `pos'.  Decrypting with the wrong state garbles  *)
(* it.  The steps of one read event are the actions with run # "idle".       *)
(*                                                                         *)
(* A transaction of fewer than two bytes after its header stands for any       *)
(* that hl_transaction_deserialize refuses (see Parses).                      *)
(***************************************************************************)
EXTENDS Integers, Sequences, FiniteSets, Functions, SequencesExt

CONSTANTS
    HeaderLen,        \* bytes of a transaction's header
    Peek,        \* bytes of it the scanner needs to learn the length
    FrameHead,   \* bytes of an AEAD frame's length prefix
    Tag,         \* bytes of its authentication tag
    BufSize,     \* read_buf
    Bodies,      \* lengths of the transactions' bodies, as clients send them
    Rotations,   \* key rotations a client may ask for in one transaction
    MaxSent,     \* bound: transactions after the login
    Offers,      \* the login requests of clients, see Offer
    Policies,    \* hope_cipher_policy
    Tls          \* may the connection be a TLS one?

ASSUME TransportAssumption ==
    /\ {HeaderLen, Peek, FrameHead, Tag, BufSize} \subseteq Nat \ {0} /\ Peek <= HeaderLen
    /\ Bodies \subseteq Nat /\ Rotations \subseteq Nat /\ MaxSent \in Nat
    /\ Tls \subseteq BOOLEAN

VARIABLES
    conn,      \* "login", "open", "refused", "dropped" or "lost": the server takes
               \* bytes for others than they are, and goes on so for good
    tls,       \* is this a TLS connection?
    agreed,    \* the cipher named in the negotiation reply
    active,    \* the cipher the server uses
    sent,      \* [body, rot] of the transactions the client has sent
    encoder,   \* the client's cipher state: [gen, pos]
    net,       \* bytes on the way
    held,      \* bytes that the TLS library has read but not handed out
    buf,       \* cc->read_buf
    offset,    \* decrypt_offset
    phase,     \* decrypt_phase
    rest,      \* body_rest_remaining
    cipher,    \* the server's cipher state: [gen, pos]; pos is recv_counter for AEAD
    run,       \* what the read event in progress does next
    got        \* the transactions that have been dispatched

login == <<conn, tls, agreed, active>>
client == <<sent, encoder>>
stream == <<net, held>>
decrypt == <<offset, phase, rest, cipher>>
transportVars == <<login, client, stream, buf, decrypt, run, got>>

Clear == [gen |-> -1, pos |-> 0]
Garbled == [gen |-> -2, pos |-> 0]
KeyStart == [gen |-> 0, pos |-> 0]
Byte(n, k, e) == [tran |-> n, at |-> k, enc |-> e]
Smaller(m, n) == IF m < n THEN m ELSE n

-----------------------------------------------------------------------------
(* The negotiation.  An offer lists MACs and ciphers; a plain login is not    *)
(* one of HOPE and negotiates nothing.                                       *)

MacOrder == <<"HMAC-SHA256", "HMAC-SHA1", "SHA1", "HMAC-MD5", "MD5", "INVERSE">>
Macs == ToSet(MacOrder)
Strict == {"HMAC-SHA256", "HMAC-SHA1", "HMAC-MD5"}
Offer == [hope: BOOLEAN, macs: SUBSET Macs, ciphers: SUBSET {"rc4", "aead"}]

\* hl_hope_select_best_algorithm, for a list of names.
SelectMac(macs, legacy) ==
    LET ok == {i \in DOMAIN MacOrder : MacOrder[i] \in macs
                                       /\ (legacy \/ MacOrder[i] \in Strict)}
    IN  IF ok # {} THEN MacOrder[CHOOSE i \in ok : \A j \in ok : i <= j]
        ELSE IF legacy THEN "INVERSE" ELSE "no MAC"

\* The cipher mode of hl_hope_build_negotiation_reply.
SelectCipher(mac, ciphers, policy) ==
    IF mac = "no MAC" THEN "refuse"
    ELSE LET offered == IF mac = "INVERSE" THEN {} ELSE ciphers
         IN  IF "aead" \in offered /\ policy # "rc4-only" THEN "aead"
             ELSE IF policy = "require-aead" THEN "refuse"
             ELSE IF "rc4" \in offered THEN "rc4" ELSE "none"

\* Mutant of Activated: RC4 whatever was negotiated.
ActivatedRc4(mac, mode) == IF mac = "INVERSE" THEN "none" ELSE "rc4"

\* Keys are derived and the transport activated by the MAC; a mode that is not
\* AEAD is RC4 here.
Activated(mac, mode) ==
    IF mac = "INVERSE" THEN "none" ELSE IF mode = "aead" THEN "aead" ELSE "rc4"

TransportInit ==
    /\ conn = "login" /\ tls \in Tls /\ agreed = "none" /\ active = "none"
    /\ sent = <<>> /\ encoder = KeyStart
    /\ net = <<>> /\ held = <<>> /\ buf = <<>>
    /\ offset = 0 /\ phase = "header" /\ rest = 0 /\ cipher = KeyStart
    /\ run = "idle" /\ got = <<>>

\* A HOPE login, whose second transaction carries the right MACs, or none.
HopeLogin(o, policy, legacy) ==
    LET mac == SelectMac(o.macs, legacy)
        mode == SelectCipher(mac, o.ciphers, policy)
    IN  /\ conn = "login" /\ o.hope
        /\ \/ /\ mode # "refuse" /\ conn' = "open"
              /\ agreed' = mode /\ active' = Activated(mac, mode)
           \/ conn' = "refused" /\ UNCHANGED <<agreed, active>>
        /\ UNCHANGED <<tls, client, stream, buf, decrypt, run, got>>

PlainLogin(o) ==
    /\ conn = "login" /\ ~o.hope
    /\ conn' \in {"open", "refused"}
    /\ UNCHANGED <<tls, agreed, active, client, stream, buf, decrypt, run, got>>

-----------------------------------------------------------------------------
(* The client: it encrypts as agreed.  An RC4 transaction rotates the key      *)
(* after the first two bytes of its body, or after all of a shorter one.       *)

Length(n) == HeaderLen + sent[n].body
Size(body) == IF agreed = "aead" THEN FrameHead + HeaderLen + body + Tag ELSE HeaderLen + body

\* How byte k of a transaction is encrypted, from the client's state.
Encryption(k, rot) ==
    IF agreed = "none" THEN Clear
    ELSE IF agreed = "aead" \/ k <= HeaderLen + 2 \/ rot = 0
         THEN [encoder EXCEPT !.pos = @ + (IF agreed = "aead" THEN 0 ELSE k - 1)]
    ELSE [gen |-> encoder.gen + rot, pos |-> k - HeaderLen - 3]

AfterSending(body, rot) ==
    IF agreed = "none" THEN encoder
    ELSE IF agreed = "aead" THEN [encoder EXCEPT !.pos = @ + 1]
    ELSE IF rot = 0 THEN [encoder EXCEPT !.pos = @ + HeaderLen + body]
    ELSE [gen |-> encoder.gen + rot, pos |-> IF body > 2 THEN body - 2 ELSE 0]

Send(body, rot) ==
    /\ conn = "open" /\ Len(sent) < MaxSent
    /\ rot = 0 \/ agreed = "rc4"
    /\ sent' = Append(sent, [body |-> body, rot |-> rot])
    /\ net' = net \o [k \in 1 .. Size(body) |-> Byte(Len(sent) + 1, k, Encryption(k, rot))]
    /\ encoder' = AfterSending(body, rot)
    /\ UNCHANGED <<login, held, buf, decrypt, run, got>>

-----------------------------------------------------------------------------
(* The read event.  *)

Decode == CASE active = "aead" -> "frames" [] active = "rc4" -> "decrypt"
            [] OTHER -> "scan"

\* A full buffer without a whole transaction in it ends the connection.  The
\* event is raised by bytes on the way only, not by those the library holds.
BufferFull ==
    /\ conn = "open" /\ run = "idle" /\ net # <<>> /\ Len(buf) >= BufSize
    /\ conn' = "dropped"
    /\ UNCHANGED <<tls, agreed, active, client, stream, buf, decrypt, run, got>>

Take(s, n) == SubSeq(s, 1, n)
Skip(s, n) == SubSeq(s, n + 1, Len(s))

\* One read: some of the bytes that have arrived, or from a TLS connection
\* what is left of a record, of any length, as far as the buffer has room.
ReadEvent ==
    /\ conn = "open" /\ run = "idle" /\ net # <<>> /\ Len(buf) < BufSize
    /\ LET room == BufSize - Len(buf)
       IN  IF ~tls
           THEN \E n \in 1 .. Smaller(room, Len(net)) :
                  /\ buf' = buf \o Take(net, n)
                  /\ net' = Skip(net, n) /\ UNCHANGED held
           ELSE \E n \in (IF held = <<>> THEN 1 .. Len(net) ELSE {0}) :
                  LET record == held \o Take(net, n)
                      m == Smaller(room, Len(record))
                  IN  /\ buf' = buf \o Take(record, m)
                      /\ held' = Skip(record, m) /\ net' = Skip(net, n)
    /\ run' = Decode
    /\ UNCHANGED <<login, client, decrypt, got>>

-----------------------------------------------------------------------------
(* hl_hope_decrypt_incremental, one phase at a time.                           *)

Decrypted(b, e) ==
    [b EXCEPT !.enc = IF b.enc = e THEN Clear ELSE Garbled]

\* The n bytes after offset are decrypted with the key stream.
DecryptBytes(n) ==
    /\ buf' = [k \in DOMAIN buf |->
                 IF k > offset /\ k <= offset + n
                 THEN Decrypted(buf[k], [cipher EXCEPT !.pos = @ + k - offset - 1])
                 ELSE buf[k]]
    /\ offset' = offset + n

Advanced(n, rot) ==
    IF rot = 0 THEN [cipher EXCEPT !.pos = @ + n]
    ELSE [gen |-> cipher.gen + rot, pos |-> 0]

Available == Len(buf) - offset

\* The next byte is the one that the key stream has come to.
InPlace == Available > 0 /\ buf[offset + 1].enc = cipher

\* Bytes decrypted with the wrong key are taken for anything.
DecryptAstray ==
    /\ run = "decrypt" /\ Available > 0 /\ ~InPlace
    /\ conn' = "lost" /\ run' = "idle"
    /\ UNCHANGED <<tls, agreed, active, client, stream, buf, decrypt, got>>

\* A transaction without a body turns the key, if at all, after its header.
DecryptHeader ==
    /\ run = "decrypt" /\ phase = "header" /\ Available >= HeaderLen /\ InPlace
    /\ DecryptBytes(HeaderLen)
    /\ LET t == sent[buf[offset + 1].tran]
       IN  /\ cipher' = Advanced(HeaderLen, IF t.body = 0 THEN t.rot ELSE 0)
           /\ phase' = IF t.body = 0 THEN "header" ELSE "prefix"
    /\ UNCHANGED <<login, client, stream, rest, run, got>>

\* The bytes of the body before the key is turned: the number of fields.
Prefix == Smaller(sent[buf[offset + 1].tran].body, 2)

DecryptPrefix ==
    /\ run = "decrypt" /\ phase = "prefix" /\ InPlace /\ Available >= Prefix
    /\ DecryptBytes(Prefix)
    /\ LET t == sent[buf[offset + 1].tran]
       IN  /\ cipher' = Advanced(Prefix, t.rot)
           /\ rest' = IF t.body <= 2 THEN rest ELSE t.body - 2
           /\ phase' = IF t.body <= 2 THEN "header" ELSE "rest"
    /\ UNCHANGED <<login, client, stream, run, got>>

DecryptRest ==
    /\ run = "decrypt" /\ phase = "rest" /\ InPlace
    /\ LET n == Smaller(rest, Available)
       IN  /\ DecryptBytes(n)
           /\ cipher' = Advanced(n, 0)
           /\ rest' = rest - n
           /\ phase' = IF n = rest THEN "header" ELSE "rest"
    /\ UNCHANGED <<login, client, stream, run, got>>

DecryptDone ==
    /\ run = "decrypt"
    /\ \/ Available <= 0
       \/ phase = "header" /\ Available < HeaderLen
       \/ phase = "prefix" /\ Available = 1 /\ Prefix = 2
    /\ run' = "scan"
    /\ UNCHANGED <<login, client, stream, buf, decrypt, got>>

-----------------------------------------------------------------------------
(* The scanner's loop.  *)

Limit == IF active = "rc4" THEN offset ELSE Len(buf)

\* The n first bytes of the buffer are transaction t as the client sent it.
Whole(t, n) == n <= Len(buf) /\ \A k \in 1 .. n : buf[k] = Byte(t, k, Clear)

\* hl_transaction_deserialize wants the number of fields after the header.
Parses(t) == sent[t].body >= 2

\* Mutant of Adjusted: what had been decrypted of the next one is forgotten.
AdjustedZero(n) == IF active # "rc4" THEN offset ELSE 0

\* hl_hope_adjust_offset
Adjusted(n) == IF active # "rc4" THEN offset ELSE IF n >= offset THEN 0 ELSE offset - n

\* Mutant of Scan: one transaction in each event.
ScanOnce ==
    /\ run = "scan" /\ Limit >= Peek
    /\ LET t == buf[1].tran
       IN  /\ Length(t) <= Limit /\ Whole(t, Length(t)) /\ Parses(t)
           /\ got' = Append(got, t)
           /\ buf' = Skip(buf, Length(t))
           /\ offset' = Adjusted(Length(t))
           /\ run' = "idle"
    /\ UNCHANGED <<conn, tls, agreed, active, client, stream, phase, rest, cipher>>

\* A transaction that does not parse empties the buffer, with all that came
\* after it, and leaves decrypt_offset as it is.  If the first bytes are not a
\* transaction's header the scanner takes anything for the length.
Scan ==
    /\ run = "scan" /\ Limit >= Peek
    /\ LET t == buf[1].tran
       IN  \/ /\ ~Whole(t, Peek) \/ (Length(t) <= Limit /\ ~Whole(t, Length(t)))
              /\ conn' = "lost" /\ run' = "idle" /\ UNCHANGED <<buf, offset, got>>
           \/ /\ Length(t) <= Limit /\ Whole(t, Length(t)) /\ ~Parses(t)
              /\ buf' = <<>> /\ run' = "idle" /\ UNCHANGED <<conn, offset, got>>
           \/ /\ Length(t) <= Limit /\ Whole(t, Length(t)) /\ Parses(t)
              /\ got' = Append(got, t)
              /\ buf' = Skip(buf, Length(t))
              /\ offset' = Adjusted(Length(t))
              /\ UNCHANGED <<conn, run>>
    /\ UNCHANGED <<tls, agreed, active, client, stream, phase, rest, cipher>>

ScanDone ==
    /\ run = "scan"
    /\ Limit >= Peek => Whole(buf[1].tran, Peek) /\ Length(buf[1].tran) > Limit
    /\ run' = "idle"
    /\ UNCHANGED <<login, client, stream, buf, decrypt, got>>

-----------------------------------------------------------------------------
(* The loop over AEAD frames.  *)

FrameLength == FrameHead + Length(buf[1].tran) + Tag

\* Mutant of OpenFrame: recv_counter is not advanced.
OpenFrameSame ==
    /\ run = "frames" /\ Len(buf) >= FrameHead
    /\ FrameLength <= BufSize /\ FrameLength <= Len(buf)
    /\ IF \A k \in 1 .. FrameLength : buf[k] = Byte(buf[1].tran, k, cipher)
       THEN /\ got' = IF Parses(buf[1].tran) THEN Append(got, buf[1].tran) ELSE got
            /\ buf' = Skip(buf, FrameLength)
            /\ UNCHANGED <<conn, run>>
       ELSE conn' = "lost" /\ run' = "idle" /\ UNCHANGED <<got, buf>>
    /\ UNCHANGED <<tls, agreed, active, client, stream, offset, phase, rest, cipher>>

\* hl_hope_aead_decrypt_frame and the dispatch of its transaction, which is
\* passed over if it does not parse.  The tag is right if the frame is whole
\* and its nonce is the expected one.
OpenFrame ==
    /\ run = "frames" /\ Len(buf) >= FrameHead
    /\ FrameLength <= BufSize /\ FrameLength <= Len(buf)
    /\ IF \A k \in 1 .. FrameLength : buf[k] = Byte(buf[1].tran, k, cipher)
       THEN /\ cipher' = [cipher EXCEPT !.pos = @ + 1]
            /\ got' = IF Parses(buf[1].tran) THEN Append(got, buf[1].tran) ELSE got
            /\ buf' = Skip(buf, FrameLength)
            /\ UNCHANGED <<conn, run>>
       ELSE conn' = "lost" /\ run' = "idle" /\ UNCHANGED <<cipher, got, buf>>
    /\ UNCHANGED <<tls, agreed, active, client, stream, offset, phase, rest>>

FrameTooLarge ==
    /\ run = "frames" /\ Len(buf) >= FrameHead /\ FrameLength > BufSize
    /\ conn' = "dropped" /\ run' = "idle"
    /\ UNCHANGED <<tls, agreed, active, client, stream, buf, decrypt, got>>

FramesDone ==
    /\ run = "frames"
    /\ Len(buf) >= FrameHead => FrameLength <= BufSize /\ FrameLength > Len(buf)
    /\ run' = "idle"
    /\ UNCHANGED <<login, client, stream, buf, decrypt, got>>

-----------------------------------------------------------------------------

TransportNext ==
    \/ \E o \in Offers : PlainLogin(o)
                         \/ \E p \in Policies, l \in BOOLEAN : HopeLogin(o, p, l)
    \/ \E b \in Bodies, r \in Rotations : Send(b, r)
    \/ BufferFull \/ ReadEvent
    \/ DecryptAstray \/ DecryptHeader \/ DecryptPrefix \/ DecryptRest \/ DecryptDone
    \/ Scan \/ ScanDone
    \/ OpenFrame \/ FrameTooLarge \/ FramesDone

TransportSpec == TransportInit /\ [][TransportNext]_transportVars

\* The loop handles what is readable, and a handler runs to its end.
Handling == ReadEvent \/ BufferFull \/ DecryptAstray \/ DecryptHeader \/ DecryptPrefix \/ DecryptRest
            \/ DecryptDone \/ Scan \/ ScanDone \/ OpenFrame \/ FrameTooLarge \/ FramesDone
Fairness == WF_transportVars(Handling)
TransportLiveSpec == TransportSpec /\ Fairness

-----------------------------------------------------------------------------
(* Properties.  *)

\* The server encrypts as the negotiation reply tells the client: "no transport
\* encryption" (hope.h:160) if no cipher was named.
AgreedTransport == conn = "open" => active = agreed

\* A cipher named in the reply of hl_hope_build_negotiation_reply is the one
\* that handle_new_connection activates, by other variables, after the login.
AnnouncedUsed == conn = "open" /\ agreed # "none" => active = agreed

\* Both ends use the same cipher, and whatever the client has sent parses.
Undisturbed == active = agreed /\ \A n \in DOMAIN sent : Parses(n)

\* On an undisturbed connection, whatever way the stream is cut into reads and
\* records, the dispatched transactions are the ones sent, each once and in
\* order, and the stream is never out of step (no byte decrypted twice,
\* skipped, or with the wrong key).
InStep ==
    Undisturbed =>
        /\ got = [n \in 1 .. Len(got) |-> n] /\ Len(got) <= Len(sent)
        /\ conn # "lost"

\* There, what is in the buffer, in the TLS library and on the way is, in this
\* order, exactly the rest of what the client sent; the decrypted part of the
\* buffer ends where decrypt_offset says.
NothingLost ==
    Undisturbed /\ conn \in {"open", "dropped"} =>
        LET left == buf \o held \o net
            names == [k \in DOMAIN left |-> <<left[k].tran, left[k].at>>]
            \* the bytes of transaction n, after those of the earlier ones
            before[n \in 0 .. Len(sent)] ==
                IF n <= Len(got) THEN 0 ELSE before[n - 1] + Size(sent[n].body)
        IN  /\ Len(left) = before[Len(sent)]
            /\ \A n \in Len(got) + 1 .. Len(sent), k \in 1 .. MaxSent * BufSize :
                 k <= Size(sent[n].body) => names[before[n - 1] + k] = <<n, k>>
            /\ active = "rc4" => \A k \in DOMAIN buf : buf[k].enc = Clear <=> k <= offset

\* There, every transaction is dispatched in the end, unless the connection is
\* given up or the TLS library keeps the rest of a record for good.
Delivered ==
    []Undisturbed /\ []<>(held = <<>>) => <>[](conn = "open" => Len(got) = Len(sent))
=============================================================================
