------------------------ MODULE MCLorawanSettings --------------------------
\* Instances of LorawanSettings for TLC: sub-manifests of settings[], each in
\* the order of the source.
EXTENDS LorawanSettings

\* The join policy with the old keys of its fields.
PolicyManifest == <<"join_policy", "autojoin", "join_interval", "join_attempts">>

\* Two credentials, loaded in one call; the region is a shared setting with an old key too.
ResetManifest == <<"chmask", "region", "band">>

\* What CachesConsistent, ResetIsComplete and JoinKeepsCredentials look at, apart from the
\* types of the history of the calls (told, superseded, wrote), which no action reads.
ResetView == <<flash, settings, credentials, join_active, clearing>>
=============================================================================
