----------------------------- MODULE PollStatus -----------------------------
(***************************************************************************)
(* The two vocabularies of detail/poll.hpp and detail/poll.cpp: the events *)
(* of ::poll and the socket_status flags they are translated to.  A        *)
(* bitmask is a set of flags.                                              *)
(***************************************************************************)

Revent == {"POLLIN", "POLLOUT", "POLLERR", "POLLHUP", "POLLNVAL"}

\* enum class socket_status
SocketStatus == {"readable", "writable", "error", "hung_up"}

\* POLLNVAL has no socket_status: such a descriptor is reported with status {}.
ssm_from_revents(revents) ==
    {s \in SocketStatus :
        \/ s = "readable" /\ "POLLIN" \in revents
        \/ s = "writable" /\ "POLLOUT" \in revents
        \/ s = "error" /\ "POLLERR" \in revents
        \/ s = "hung_up" /\ "POLLHUP" \in revents}

\* poll_group::poll_group: the events asked for.
pfd_config(config) ==
    {e \in {"POLLIN", "POLLOUT"} :
        \/ e = "POLLIN" /\ "readable" \in config
        \/ e = "POLLOUT" /\ "writable" \in config}

=============================================================================
