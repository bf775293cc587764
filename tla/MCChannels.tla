----------------------------- MODULE MCChannels -----------------------------
(* A small instance of Channels.  The people are interchangeable, and so are  *)
(* the system keys, the channels and the messages.                           *)
EXTENDS Channels, TLC

Symmetry == Permutations(People) \cup Permutations(SystemKeys)
            \cup Permutations(ChannelIds) \cup Permutations(MessageIds)

(* What the run follows.  Every combination of roles is reached while there is  *)
(* no channel; once there is one, the people are workers and owners.            *)
(* Cursors and a second message are followed while no key has changed, a first  *)
(* message through one change of the key, and a retired system key among two    *)
(* people.                                                                    *)
KeysUnchanged == revoked = {} /\ \A c \in ChannelIds : epoch[c] = 0

Followed ==
    channels # {} =>
        /\ \A p \in People : role[p] \in {Unknown, Worker, Owner}
        /\ messages # <<>> => \A c \in ChannelIds : epoch[c] <= 1
        /\ Len(messages) > 1 => KeysUnchanged
        /\ (\E p \in People, c \in ChannelIds : acked[p][c] > 0) => KeysUnchanged
        /\ revoked \cap SystemKeys # {} =>
              messages = <<>> /\ \E p \in People : role[p] = Unknown
=============================================================================
