--------------------------- MODULE MCAtNetworkMode ---------------------------
(* AtNetworkMode for TLC: the firmware variants and values around the limits and widths. *)
EXTENDS AtNetworkMode

Build(lorawan, lora, persist, backend) ==
    [lorawan |-> lorawan, lora |-> lora, nvm |-> persist, backend |-> backend]
AllBuilds == {Build(TRUE, TRUE, TRUE, "usp"), Build(TRUE, TRUE, FALSE, "usp"),
              Build(TRUE, FALSE, TRUE, "usp"),
              Build(FALSE, TRUE, FALSE, "usp"), Build(FALSE, TRUE, FALSE, "zephyr")}

\* In range, out of range, and 263, 259, 65541 and 270, which cut to 7, 3, 5 and 14.
SomeFieldWrites == {<<"PSF", 12>>, <<"PSF", 13>>, <<"PTP", 22>>, <<"ENCRY", 1>>}
SomeP2pWrites == {<<868000000, 7, 0, 0, 8, 14>>, <<868000000, 263, 0, 259, 65541, 270>>,
                  <<868000000, 7, 0, 4, 8, 14>>, <<868000000, 7, 0, 0, 65540, 14>>,
                  <<868000000, 7, 0, 0, 8, 200>>}
=============================================================================
