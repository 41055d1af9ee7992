----------------------------- MODULE MCAppLoop -----------------------------
(* AppLoop with every source of data, the lengths that are special to the   *)
(* conversions, and ranges of channels within one word, two and more.       *)
EXTENDS AppLoop

AllSources == {"fixed_data", "mkfifo_data", "hdc1080_data", "bmp180_data"}
PipeReads == {-1, 0, 1, 16, 128}
TextLengths == {0, 1, 16, 128}
ChannelRanges == {<<0, 7>>, <<8, 15>>, <<15, 16>>, <<12, 50>>, <<64, 71>>, <<0, 95>>, <<9, 3>>}

=============================================================================
