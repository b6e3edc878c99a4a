------------------------------ MODULE Airtime ------------------------------
(***************************************************************************)
(* The airtime of a LoRa packet (src/airtime.rs), as the LoRa actor counts *)
(* it.  The program's f64 are exact fractions here: numbers of symbols are *)
(* counted in parts of a symbol, so many per symbol as the configuration's *)
(* Parts, and a symbol lasts 2^spreading_factor / band_width milliseconds. *)
(***************************************************************************)
EXTENDS Integers, FiniteSetsExt

\* payload_valid
ValidPayload == 1 .. 254

\* Configurations with the preamble, the bandwidth and the coding rate of
\* AirtimeConfig::default.
Config == [spreading_factor : 6 .. 12, crc : BOOLEAN, explicit_header : BOOLEAN,
           low_data_rate_optimization : BOOLEAN]
PreambleLen == 6
CodingRate == 5

\* Mutant: the optimisation adds the two bits.
BitsPerSymbol_More(c) ==
    IF c.low_data_rate_optimization THEN c.spreading_factor + 2 ELSE c.spreading_factor

BitsPerSymbol(c) ==
    IF c.low_data_rate_optimization THEN c.spreading_factor - 2 ELSE c.spreading_factor

Parts(c) == 4 * BitsPerSymbol(c)

PayloadBits(c, len) ==
    LET bits == 8 * len - 4 * c.spreading_factor + 28
                  + (IF c.crc THEN 16 ELSE 0) + (IF c.explicit_header THEN 20 ELSE 0)
    IN  Max({bits, 0})

\* n_payload: 8 symbols and the coded bits.
NPayload(c, len) == 8 * Parts(c) + PayloadBits(c, len) * CodingRate

\* n_preamble: 4.25 symbols more than the configured length.
NPreamble(c) == PreambleLen * Parts(c) + 17 * BitsPerSymbol(c)

\* time_total, in symbols.
Symbols(c, len) == NPreamble(c) + NPayload(c, len)

\* symbol_time of d, in those of a configuration with a smaller factor.
SymbolTime(d, c) == 2 ^ (d.spreading_factor - c.spreading_factor)

\* Whether len takes at least as long under d as under c, whose parts differ.
AtLeast(d, c, len) ==
    SymbolTime(d, c) * Symbols(d, len) * Parts(c) >= Symbols(c, len) * Parts(d)

---------------------------------------------------------------------------

\* A larger spreading factor packs more bits into a symbol and still costs
\* airtime, for every payload; so do the checksum, the header and the low data
\* rate optimisation.
Costs ==
    \A c \in Config, len \in ValidPayload :
        /\ c.spreading_factor < 12 =>
            AtLeast([c EXCEPT !.spreading_factor = @ + 1], c, len)
        /\ AtLeast([c EXCEPT !.crc = TRUE], c, len)
        /\ AtLeast([c EXCEPT !.explicit_header = TRUE], c, len)
        /\ AtLeast([c EXCEPT !.low_data_rate_optimization = TRUE], c, len)
============================================================================
