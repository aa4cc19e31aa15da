---------------------------- MODULE MCInstrument ----------------------------
(***************************************************************************)
(* Sessions for Instrument: each setting by itself, with values on both     *)
(* sides of its limits; the sweep list with two settings of its template;   *)
(* and captures.                                                            *)
(***************************************************************************)
EXTENDS Instrument

N(n) == <<Num(n)>>
W(w) == <<Word(w)>>
Pair(a, b) == <<Num(a), Num(b)>>
Level(a, b, amplitude) == <<Num(a), Num(b), Num(amplitude)>>

MCIds == -1 .. 4
MCStartIds == {-1, 0, 7, 8}

MCHolds ==
    [lan_config |-> <<W("DHCP"), W("STATIC")>>,
     lan_ip |-> <<W("10.0.0.2"), W("10.0.0.3")>>,
     lan_netmask |-> <<W("255.0.0.0")>>,
     lan_gateway |-> <<W("10.0.0.1")>>,
     lan_dns |-> <<W("10.0.0.1")>>,
     acq_access |-> <<N(0), N(1), N(2)>>, acq_status |-> <<N(0), N(1), N(2)>>,
     samples_per_packet |-> <<N(1024)>>, packets_per_block |-> <<N(1)>>,
     decimation |-> <<N(1)>>, freq |-> <<N(2400)>>, freq_shift |-> <<N(0)>>,
     spec_inv |-> <<N(0), N(1)>>, attenuation |-> <<N(1), N(0)>>,
     rfe_input_mode |-> <<W("ZIF"), W("AUTO")>>,
     iq_output_mode |-> <<W("DIGITIZER"), W("CONNECTOR")>>,
     trigger_level |-> <<Level(0, 8000, -100), Level(50, 40000, 0)>>,
     trigger_type |-> <<W("NONE"), W("PERIODIC")>>,
     trigger_sync_delay |-> <<N(0), N(4)>>, trigger_sync_state |-> <<N(0), N(1)>>,
     reference_pll |-> <<W("INT"), W("EXT")>>,
     lock_ref_pll |-> <<N(0), N(1)>>, lock_rf |-> <<N(0), N(1)>>,
     temperature |-> <<Level(40, 41, 39), Level(-5, 0, -1)>>,
     sweep_attenuation |-> <<N(1)>>, sweep_rfe_input_mode |-> <<W("ZIF")>>,
     sweep_samples_per_packet |-> <<N(1024)>>,
     sweep_packets_per_block |-> <<N(1)>>, sweep_decimation |-> <<N(1)>>,
     sweep_freq |-> <<Pair(2400, 2400)>>, sweep_freq_shift |-> <<N(0)>>,
     sweep_freq_step |-> <<N(100)>>, sweep_dwell |-> <<Pair(0, 0)>>,
     sweep_trigger_level |-> <<Level(50, 8000, -100)>>,
     sweep_trigger_type |-> <<W("NONE")>>, sweep_trigger_sync_delay |-> <<N(0)>>,
     sweep_iteration |-> <<N(0)>>,
     sweep_entry_size |-> <<N(0)>>, sweep_status |-> <<W("STOPPED")>>]

Delays == {N(0), N(8), N(12), N(DelayMax - 8), N(DelayMax)}
Blocks == {N(0), N(1), N(IntMax)}
Levels == {Level(-1, 100, 0), Level(100, 8001, 0), Level(100, 100, -90),
           Level(100, 8000, -90), Level(200, 100, 0)}
Rates == {N(1), N(2), N(4), N(1024), N(1025)}
MCCandidates ==
    [lan_config |-> {W("STATIC")}, lan_ip |-> {W("10.0.0.9")},
     lan_netmask |-> {W("255.255.0.0")}, lan_gateway |-> {W("10.0.0.8")},
     lan_dns |-> {<<Word("10.0.0.6"), Word("10.0.0.7")>>, W("10.0.0.6")},
     samples_per_packet |-> {N(255), N(256), N(64000), N(64001)},
     packets_per_block |-> Blocks, decimation |-> Rates,
     freq |-> {N(-1), N(0), N(8000), N(8001), N(18000)},
     freq_shift |-> {N(-InstBw - 1), N(-InstBw), N(InstBw), N(InstBw + 1)},
     attenuation |-> {N(0), N(20)},
     rfe_input_mode |-> {W("DD"), W("AUTO")},
     iq_output_mode |-> {W("CONNECTOR"), W("ZIF")},
     trigger_level |-> Levels, trigger_type |-> {W("LEVEL"), W("PERIODIC")},
     trigger_sync_delay |-> Delays, trigger_sync_state |-> {N(1)},
     reference_pll |-> {W("EXT"), W("GPS")},
     sweep_attenuation |-> {N(0), N(10)},
     sweep_rfe_input_mode |-> {W("SH"), W("AUTO")},
     sweep_samples_per_packet |-> {N(256), N(300), N(64000)},
     sweep_packets_per_block |-> Blocks, sweep_decimation |-> Rates,
     sweep_freq |-> {Pair(100, 100), Pair(200, 100), Pair(100, 8001), Pair(-1, 5)},
     sweep_freq_shift |-> {N(-InstBw), N(InstBw + 1)},
     sweep_freq_step |-> {N(10), N(-1)},
     sweep_dwell |-> {Pair(1, 0), Pair(0, -1)},
     sweep_trigger_level |-> Levels,
     sweep_trigger_type |-> {W("LEVEL"), W("PERIODIC")},
     sweep_trigger_sync_delay |-> Delays, sweep_iteration |-> {N(3)}]

Alone(s) ==
    [focus |-> {s},
     ops |-> {"set", "get"}
                \cup (IF s \in LanSettings THEN {"lan_apply"} ELSE {})
                \cup (IF s = "reference_pll" THEN {"reset_pll"} ELSE {}),
     model |-> "WSA5000-408", sizes |-> {0}]

ListSession(focus, ops) ==
    [focus |-> focus, ops |-> ops, model |-> "WSA5000-408", sizes |-> 0 .. 2]

MCSessions ==
    {Alone(s) : s \in DOMAIN MCHolds \ {"sweep_entry_size", "sweep_status"}}
    \cup {[Alone(s) EXCEPT !.model = m] :
            s \in {"attenuation"}, m \in {"R5500-408", "R5500-427"}}
    \cup {[Alone("freq") EXCEPT !.model = m] :
            m \in {"R5500-418", "RTSA7500-27", "WSA5000-108"}}
    \cup {ListSession({"sweep_freq", "sweep_trigger_type"},
                      {"set", "entry_copy", "entry_save", "entry_read", "entry_new"}),
          ListSession({"sweep_entry_size"},
                      {"get", "entry_save", "entry_delete", "entry_delete_all",
                       "entry_copy"}),
          ListSession({"sweep_status"},
                      {"get", "sweep_start", "sweep_start_id", "sweep_stop",
                       "flush", "abort"}),
          ListSession({},
                      {"stream_start", "stream_start_id", "stream_stop",
                       "capture_block", "flush", "sweep_start"})}
=============================================================================
