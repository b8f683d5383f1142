----------------------------- MODULE MCNetwork -----------------------------
EXTENDS Network, TLC

CONSTANTS t1, t2

\* Six clients: channels and joins, mask changes beside joins, identity reads beside joins and
\* leaves, link control, MAC requests from two threads, multicast.
ChannelClient(t) == [threads |-> {t}, regions |-> BandInputs,
                     ops |-> {"band", "mask", "che", "chs", "sub_band", "raw", "join", "leave"}]
RaceClient == [threads |-> {t1, t2}, regions |-> {"US_915"}, ops |-> {"mask", "join"}]
InfoClient == [threads |-> {t1, t2}, regions |-> {"EU_868"},
               ops |-> {"join", "leave", "njm", "identity", "set_identity"}]
LinkClient(t) == [threads |-> {t}, regions |-> {"EU_868"},
                  ops |-> {"join", "leave", "adr", "data_rate", "profile", "lbt", "lbt_rssi", "lbt_scan"}]
MacClient == [threads |-> {t1, t2}, regions |-> {"EU_868"},
              ops |-> {"join", "leave", "link_check", "device_time", "send"}]
McClient(t) == [threads |-> {t}, regions |-> {"EU_868"}, ops |-> {"leave", "mc_add", "mc_remove", "mc_clear"}]

\* A client of one thread may be either thread: the threads are interchangeable.
AllClients == {RaceClient, InfoClient, MacClient}
              \cup UNION {{ChannelClient(t), LinkClient(t), McClient(t)} : t \in {t1, t2}}
Perms == Permutations({t1, t2})

\* AT+MASK: every channel, one block, all blocks, the 500 kHz group, both kinds.
Masks == {{}, {0}, Blocks, {8}, {1, 8}}
Ches == {{0}, {7, 8}, Groups}
Frequencies == {0, 9030, 9152}
Raws == {{}, {5}, Channels, {3, 80}}
TheThresholds == {-90}
=============================================================================
