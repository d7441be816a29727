------------------------------ MODULE ChannelBuilder ------------------------------
(***************************************************************************)
(* The options of a channel (channel.rs, ChannelBuilder): each setter puts *)
(* one option under the name core knows it by, the last value of a name    *)
(* wins, and connecting turns the map into core's argument array, with a   *)
(* user agent in any case.                                                 *)
(***************************************************************************)
EXTENDS Naturals, Sequences, FiniteSets

CONSTANTS
  Inputs,        \* calls of setters: records [setter, arg] and, if raw, key
  MaxSets,       \* bound on the setters called on a builder
  PerSec,        \* milliseconds of a second,
  U64,           \* 2^64 and
  I32Max         \* the largest c_int, all three scaled down together

VARIABLES
  sets,      \* the setters called, in order
  options,   \* ChannelBuilder.options
  args       \* the ChannelArgs core is given, <<>> when there are none

builderVars == <<sets, options, args>>

(* Setter, core's name for the option and the conversion of the value: an  *)
(* enum stands for its number or its name, a CString for its text.         *)
Limits ==
  [default_authority |-> <<"DEFAULT_AUTHORITY", "string">>,
   set_resource_quota |-> <<"RESOURCE_QUOTA", "pointer">>,
   max_concurrent_stream |-> <<"MAX_CONCURRENT_STREAMS", "int">>,
   max_receive_message_len |-> <<"MAX_RECEIVE_MESSAGE_LENGTH", "int">>,
   max_send_message_len |-> <<"MAX_SEND_MESSAGE_LENGTH", "int">>,
   max_reconnect_backoff |-> <<"MAX_RECONNECT_BACKOFF_MS", "ms">>,
   initial_reconnect_backoff |-> <<"INITIAL_RECONNECT_BACKOFF_MS", "ms">>]

Transport ==
  [https_initial_seq_number |-> <<"HTTP2_INITIAL_SEQUENCE_NUMBER", "int">>,
   stream_initial_window_size |-> <<"HTTP2_STREAM_LOOKAHEAD_BYTES", "int">>,
   primary_user_agent |-> <<"PRIMARY_USER_AGENT_STRING", "agent">>,
   reuse_port |-> <<"ALLOW_REUSEPORT", "bool">>,
   tcp_read_chunk_size |-> <<"TCP_READ_CHUNK_SIZE", "int">>,
   tcp_min_read_chunk_size |-> <<"TCP_MIN_READ_CHUNK_SIZE", "int">>,
   tcp_max_read_chunk_size |-> <<"TCP_MAX_READ_CHUNK_SIZE", "int">>,
   http2_write_buffer_size |-> <<"HTTP2_WRITE_BUFFER_SIZE", "int">>,
   http2_max_frame_size |-> <<"HTTP2_MAX_FRAME_SIZE", "int">>,
   http2_bdp_probe |-> <<"HTTP2_BDP_PROBE", "bool">>]

Pings ==
  [http2_min_sent_ping_interval_without_data |-> <<"HTTP2_MIN_SENT_PING_INTERVAL_WITHOUT_DATA_MS", "ms">>,
   http2_min_recv_ping_interval_without_data |-> <<"HTTP2_MIN_RECV_PING_INTERVAL_WITHOUT_DATA_MS", "ms">>,
   http2_max_pings_without_data |-> <<"HTTP2_MAX_PINGS_WITHOUT_DATA", "int">>,
   http2_max_ping_strikes |-> <<"HTTP2_MAX_PING_STRIKES", "int">>,
   default_compression_algorithm |-> <<"CHANNEL_DEFAULT_ALGORITHM", "int">>,
   default_compression_level |-> <<"CHANNEL_DEFAULT_LEVEL", "int">>,
   keepalive_time |-> <<"KEEPALIVE_TIME_MS", "ms">>]

Policies ==
  [keepalive_timeout |-> <<"KEEPALIVE_TIMEOUT_MS", "ms">>,
   keepalive_permit_without_calls |-> <<"KEEPALIVE_PERMIT_WITHOUT_CALLS", "bool">>,
   optimize_for |-> <<"OPTIMIZATION_TARGET", "string">>,
   load_balancing_policy |-> <<"LB_POLICY_NAME", "string">>]

Ssl == [override_ssl_target |-> <<"SSL_TARGET_NAME_OVERRIDE", "string">>]

(* What f has, and what g has besides.                                     *)
Merged(f, g) == [k \in DOMAIN f \cup DOMAIN g |-> IF k \in DOMAIN f THEN f[k] ELSE g[k]]
Entry(k, v) == [j \in {k} |-> v]

Setters == Merged(Limits, Merged(Transport, Merged(Pings, Merged(Policies, Ssl))))

(* raw_cfg_int and raw_cfg_string take the name from the caller.           *)
Key(in) == IF in.setter = "raw_cfg" THEN in.key ELSE Setters[in.setter][1]

(* dur_to_ms: the sum is a u64, the option a c_int.                        *)
Least(a, b) == IF a < b THEN a ELSE b
DurToMs(dur) == Least(I32Max, (dur.secs * PerSec + dur.ms) % U64)

(* format_user_agent_string, of the trimmed name: a blank one leaves the   *)
(* library's alone.                                                        *)
FormatUserAgent(agent) ==
  IF agent = "" THEN <<"grpc-rust">> ELSE <<agent, "grpc-rust">>

As(in) == IF in.setter = "raw_cfg" THEN "raw" ELSE Setters[in.setter][2]
Converted(in) ==
  CASE As(in) = "ms" -> DurToMs(in.arg)
    [] As(in) = "agent" -> FormatUserAgent(in.arg)
    [] As(in) = "bool" -> IF in.arg THEN 1 ELSE 0
    [] OTHER -> in.arg

(* A Duration has seconds and, less than one of them, milliseconds.        *)
ASSUME InputsAssumption ==
  /\ PerSec \in Nat /\ U64 \in Nat /\ I32Max \in Nat
  /\ \A in \in Inputs : As(in) = "ms" => in.arg.secs \in Nat /\ in.arg.ms \in Nat

Empty == [k \in {} |-> 0]
BuilderInit == sets = <<>> /\ options = Empty /\ args = Empty

(* Mutant: an option that is there is kept.                                *)
SetKeeps(in) ==
  /\ Len(sets) < MaxSets /\ args = Empty
  /\ sets' = Append(sets, in)
  /\ options' = Merged(options, Entry(Key(in), Converted(in)))
  /\ UNCHANGED args

Set(in) ==
  /\ Len(sets) < MaxSets /\ args = Empty
  /\ sets' = Append(sets, in)
  /\ options' = Merged(Entry(Key(in), Converted(in)), options)
  /\ UNCHANGED args

(* build_args: one argument per entry of the map.                          *)
BuildArgs(opts) == opts

(* prepare_connect_args: the user agent, if there is none, and the array.  *)
UserAgent == "PRIMARY_USER_AGENT_STRING"
PrepareConnectArgs ==
  /\ args = Empty
  /\ options' = Merged(options, Entry(UserAgent, FormatUserAgent("")))
  /\ args' = BuildArgs(options')
  /\ UNCHANGED sets

(* What core is told is what was asked for: every name that was set has    *)
(* the value of the setter called last, a duration in milliseconds or the  *)
(* largest there is; nothing else is there but the user agent, which       *)
(* always ends in the library's own; and no two setters share a name       *)
(* (channel.rs:87-439).                                                    *)
Last(key) == sets[CHOOSE i \in DOMAIN sets :
                    /\ Key(sets[i]) = key
                    /\ \A j \in DOMAIN sets : j > i => Key(sets[j]) # key]
Wanted(in) ==
  IF As(in) = "ms"
  THEN CHOOSE n \in 0..I32Max :
         \/ n = PerSec * in.arg.secs + in.arg.ms
         \/ n = I32Max /\ PerSec * in.arg.secs + in.arg.ms > I32Max
  ELSE Converted(in)
ArgsMatchSetters ==
  /\ \A s, t \in DOMAIN Setters : Setters[s][1] = Setters[t][1] => s = t
  /\ args # Empty =>
       /\ DOMAIN args = {Key(sets[i]) : i \in DOMAIN sets} \cup {UserAgent}
       /\ \A k \in DOMAIN args :
            IF \E i \in DOMAIN sets : Key(sets[i]) = k
            THEN args[k] = Wanted(Last(k))
            ELSE args[k] = <<"grpc-rust">>
=============================================================================
