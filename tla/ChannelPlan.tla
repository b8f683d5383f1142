---------------------------- MODULE ChannelPlan ----------------------------
(***************************************************************************)
(* The channel plan of US915 and AU915 (src/src/lorawan/api/               *)
(* lorawan_channel.c) and its views in the AT commands AT+MASK, AT+CHE and *)
(* AT+CHS (src/src/at/commands/lorawan/at_lorawan_supplementary.c).  A     *)
(* mask is the set of channels whose bit is set.  Channels 0..63 are the   *)
(* eight 125 kHz blocks, 64..71 the 500 kHz channels; the last two bytes   *)
(* of the six words belong to no channel.  Frequencies are in 100 kHz.     *)
(***************************************************************************)
EXTENDS Integers, FiniteSets

Channels == 0..71       \* RZI_LORAWAN_FIXED_PLAN_CHANNELS
Wide == 64              \* RZI_LORAWAN_FIXED_PLAN_WIDE
Bits == 0..95           \* RZI_LORAWAN_CHANNEL_MASK_WORDS * 16
Blocks == 0..7          \* NARROW_BLOCKS
WideGroup == 8
Groups == 0..8
SubBands == 1..8

Regions == {"US_915", "AU_915", "EU_868"}

\* rzi_lorawan_region_has_fixed_plan()
HasPlan(region) == region \in {"US_915", "AU_915"}

NarrowBase(region) == IF region = "US_915" THEN 9023 ELSE 9152

\* put_group(): the eight channels of a group, WIDE_GROUP included.
Group(g) == {c \in Channels : 8 * g <= c /\ c < 8 * g + 8}

\* put_group() and put_channel() of one bit of AT+MASK.
MaskBit(g) == IF g = WideGroup THEN Group(g) ELSE Group(g) \cup {Wide + g}

\* AT+MASK=V, V the bits that are set; 0000 is every bit.
handle_mask(V) == UNION {MaskBit(g) : g \in IF V = {} THEN Groups ELSE V}

\* AT+CHE=n:..., N the groups n - 1 (AT+CHE=0 is every group).
handle_che(N) == UNION {Group(g) : g \in N}

\* sub_band_channels(): eight 125 kHz channels and the matching 500 kHz channel.
sub_band_channels(b) == Group(b - 1) \cup {Wide + b - 1}

\* read_groups(): the full groups, or the partly enabled ones if none is full.
read_groups(mask) ==
    LET full == {g \in Groups : Group(g) \subseteq mask}
        partial == {g \in Groups : \E c \in Group(g) : c \in mask}
    IN  IF full # {} THEN full ELSE partial

\* channel_frequency()
channel_frequency(region, c) ==
    IF c < Wide THEN NarrowBase(region) + 2 * c ELSE NarrowBase(region) + 7 + 16 * (c - Wide)

\* frequency_channel(): the channel of a frequency, -1 if there is none.
frequency_channel(region, f) ==
    IF \E c \in Channels : channel_frequency(region, c) = f
    THEN CHOOSE c \in Channels :
            /\ channel_frequency(region, c) = f
            /\ \A d \in Channels : channel_frequency(region, d) = f => c <= d
    ELSE -1

\* channel_mask_valid()
channel_mask_valid(mask) == mask # {} /\ mask \subseteq Channels

\* store_mask(): every channel is stored as the default, the empty mask.
store_mask(mask) == IF mask = Channels THEN {} ELSE mask

\* read_mask()
read_mask(stored) == IF stored = {} THEN Channels ELSE stored

\* rzi_lorawan_get_sub_band(): 0 for every channel, -1 for RZI_ERR_NO_DATA.
get_sub_band(mask) ==
    IF mask = Channels THEN 0
    ELSE IF \E b \in SubBands : mask = sub_band_channels(b)
    THEN CHOOSE b \in SubBands : mask = sub_band_channels(b)
    ELSE -1

\* rzi_lorawan_get_fixed_channel(): 0 unless exactly one channel is enabled.
get_fixed_channel(region, mask) ==
    IF \E c \in Channels : mask = {c}
    THEN channel_frequency(region, CHOOSE c \in Channels : mask = {c})
    ELSE 0
=============================================================================
