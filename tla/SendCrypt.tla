----------------------------- MODULE SendCrypt -----------------------------
(***************************************************************************)
(* The sending side of the encryption in lib/src/takion.c: several threads *)
(* take ranges of one key stream under gkcrypt_local_mutex and make the    *)
(* authentication code of their packets with a key that depends on the     *)
(* position.  Data, acknowledgements and congestion reports release the    *)
(* mutex in between; feedback and microphone packets hold it throughout.   *)
(* The key itself is set without the mutex, while congestion control runs. *)
(***************************************************************************)
EXTENDS Integers, FiniteSets

CONSTANTS Senders,     \* threads
          Reporter,    \* the one of congestion control, which runs before there is a key
          Sizes,       \* of packets
          BlockSize,   \* CHIAKI_GKCRYPT_BLOCK_SIZE
          Refresh,     \* CHIAKI_GKCRYPT_GMAC_KEY_REFRESH_KEY_POS
          SizeMax,     \* SIZE_MAX, where positions end
          MaxPackets   \* bound

SendCryptConstantsOK ==
  /\ {BlockSize, Refresh, SizeMax} \subseteq Nat \ {0}
  /\ Sizes \subseteq Nat \ {0}
  /\ Reporter \in Senders

VARIABLES crypt,     \* gkcrypt_local is set
          keyPos,    \* key_pos_local
          gmacIndex, \* key_gmac_index_current
          holds,     \* per thread, its packet between the two sections
          sent       \* packets on the network

vars == <<crypt, keyPos, gmacIndex, holds, sent>>

\* A packet, and whether there was a key when its position was taken.
NoPacket == [pos |-> -1, size |-> 0, keyed |-> FALSE]

Init ==
  /\ crypt = FALSE /\ keyPos = 0 /\ gmacIndex = 0
  /\ holds = [s \in Senders |-> NoPacket]
  /\ sent = {}

\* chiaki_takion_set_crypt, without the mutex: by Takion's thread, which sends
\* nothing meanwhile, with state_mutex of the stream connection, which its
\* thread sends under. Congestion control may be between its two sections.
SetCrypt ==
  /\ ~crypt
  /\ \A s \in Senders \ {Reporter} : holds[s] = NoPacket
  /\ crypt' = TRUE
  /\ UNCHANGED <<keyPos, gmacIndex, holds, sent>>

\* data_size += data_size % CHIAKI_GKCRYPT_BLOCK_SIZE
Advance(size) == size + (size % BlockSize)

Fits(size) == keyPos + Advance(size) <= SizeMax

\* (bug: the read and the write of key_pos_local are two sections)
TakeLate(s, size) ==
  /\ holds[s] = NoPacket
  /\ Cardinality(sent) < MaxPackets
  /\ crypt => Fits(size)
  /\ holds' = [holds EXCEPT ![s] = [pos |-> IF crypt THEN keyPos ELSE 0, size |-> size,
                                           keyed |-> crypt]]
  /\ UNCHANGED <<crypt, keyPos, gmacIndex, sent>>

\* chiaki_takion_crypt_advance_key_pos for a data packet, an acknowledgement
\* or a congestion report; at the end of the key stream nothing is sent.
Take(s, size) ==
  /\ holds[s] = NoPacket
  /\ Cardinality(sent) < MaxPackets
  /\ crypt => Fits(size)
  /\ holds' = [holds EXCEPT ![s] = [pos |-> IF crypt THEN keyPos ELSE 0, size |-> size,
                                           keyed |-> crypt]]
  /\ keyPos' = IF crypt THEN keyPos + Advance(size) ELSE keyPos
  /\ UNCHANGED <<crypt, gmacIndex, sent>>

\* chiaki_gkcrypt_gmac: the index of the key the packet needs
IndexOf(pos) == (IF pos > 0 THEN pos - 1 ELSE 0) \div Refresh

\* (bug: an older position is not told from the current one)
GmacCurrent(pos) ==
  IF IndexOf(pos) > gmacIndex THEN [used |-> IndexOf(pos), current |-> IndexOf(pos)]
  ELSE [used |-> gmacIndex, current |-> gmacIndex]

\* the index of the key it uses, and of the one it keeps
Gmac(pos) ==
  [used |-> IF IndexOf(pos) > gmacIndex THEN IndexOf(pos)      \* a new key
            ELSE IF IndexOf(pos) < gmacIndex THEN IndexOf(pos) \* a temporary one
            ELSE gmacIndex,
   current |-> IF IndexOf(pos) > gmacIndex THEN IndexOf(pos) ELSE gmacIndex]

\* chiaki_takion_send: the authentication code, and the packet goes out
Send(s) ==
  /\ holds[s] # NoPacket
  /\ LET gmac == Gmac(holds[s].pos)
     IN  IF crypt
         THEN /\ gmacIndex' = gmac.current
              /\ sent' = sent \union {[pos |-> holds[s].pos, size |-> holds[s].size,
                                       keyed |-> holds[s].keyed, key |-> gmac.used]}
         ELSE UNCHANGED <<gmacIndex, sent>>
  /\ holds' = [holds EXCEPT ![s] = NoPacket]
  /\ UNCHANGED <<crypt, keyPos>>

\* takion_send_feedback_packet, chiaki_takion_send_mic_packet: the payload is
\* encrypted from the second block on.
SendEncrypted(s, payload) ==
  /\ crypt
  /\ holds[s] = NoPacket
  /\ Cardinality(sent) < MaxPackets
  /\ Fits(payload + BlockSize)
  /\ LET gmac == Gmac(keyPos)
     IN  /\ gmacIndex' = gmac.current
         /\ sent' = sent \union {[pos |-> keyPos, size |-> BlockSize + payload,
                                  keyed |-> TRUE, key |-> gmac.used]}
  /\ keyPos' = keyPos + Advance(payload + BlockSize)
  /\ UNCHANGED <<crypt, holds>>

Next ==
  \/ SetCrypt
  \/ \E s \in Senders :
       \/ \E size \in Sizes : Take(s, size) \/ SendEncrypted(s, size)
       \/ Send(s)

-----------------------------------------------------------------------------
(* Properties                                                              *)

TypeOK ==
  /\ crypt \in BOOLEAN
  /\ {keyPos, gmacIndex} \subseteq 0..SizeMax
  /\ \A s \in Senders : holds[s] = NoPacket \/ holds[s].pos \in 0..keyPos
  /\ \A p \in sent : p.pos \in 0..keyPos /\ p.key \in 0..gmacIndex

Extent(p) == [pos |-> p.pos, size |-> p.size, keyed |-> p.keyed]
Used == {Extent(p) : p \in sent} \union {Extent(holds[s]) : s \in {t \in Senders : holds[t] # NoPacket}}
Apart(p, q) == p.pos + p.size <= q.pos \/ q.pos + q.size <= p.pos

\* No two packets use the same bytes of the key stream, whichever threads
\* send them, and what one thread holds no other one was given. (Known fault:
\* the one report that congestion control was sending while the key was set is
\* signed with the key at position 0, which the first packet after it gets.)
RangesApart ==
  crypt =>
    /\ \A p, q \in Used : p.keyed /\ q.keyed /\ p # q => Apart(p, q)
    /\ \A s, t \in Senders : s # t /\ holds[s] # NoPacket => holds[s] # holds[t]
    /\ \A s \in Senders : holds[s] # NoPacket /\ ~holds[s].keyed =>
         s = Reporter /\ holds[s].pos = 0 /\ \A p \in sent : p.keyed
    /\ \A p, q \in sent : ~p.keyed /\ ~q.keyed => p = q /\ p.pos = 0

\* A packet is authenticated with the key for its own position, also when one
\* of a later position went out first and the key was renewed for that.
KeyOfItsPosition == \A p \in sent : p.key = IndexOf(p.pos)

\* Why these hold: every range taken ends before the position, no two ranges
\* touch, and before there is a key nothing is taken and nothing signed; then
\* what was begun without a key is congestion control's, and there is one.
Taken(p) ==
  p.pos \in Nat /\ p.size \in Nat \ {0} /\ p.pos + p.size <= keyPos

HeldInv ==
  /\ \A s \in Senders : holds[s].keyed => crypt /\ Taken(holds[s])
  /\ \A s \in Senders : holds[s] # NoPacket /\ ~holds[s].keyed => holds[s].pos = 0
  /\ crypt => \A s \in Senders : holds[s] # NoPacket /\ ~holds[s].keyed =>
                s = Reporter /\ \A p \in sent : p.keyed
  /\ \A s, t \in Senders : s # t /\ holds[s].keyed /\ holds[t].keyed => Apart(holds[s], holds[t])
  /\ \A s \in Senders, p \in sent : holds[s].keyed /\ p.keyed => Apart(holds[s], p)

SentInv ==
  /\ ~crypt => sent = {}
  /\ \A p \in sent : p.key = IndexOf(p.pos) /\ (p.keyed => Taken(p)) /\ (~p.keyed => p.pos = 0)
  /\ \A p, q \in sent : p.keyed /\ q.keyed /\ p # q => Apart(p, q)
  /\ \A p, q \in sent : ~p.keyed /\ ~q.keyed => p = q

SendCryptInv ==
  /\ crypt \in BOOLEAN /\ keyPos \in Nat /\ gmacIndex \in Nat
  /\ DOMAIN holds = Senders
  /\ HeldInv
  /\ SentInv
=============================================================================
