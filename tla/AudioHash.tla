------------------------------ MODULE AudioHash ------------------------------
(***************************************************************************)
(* Hash and length of a file as the index records them (util_audio_tags.c).*)
(* Under the setting "Skip metadata changes" an audio file is known by its *)
(* sound, so that new tags do not make it a new file.  A backup enters     *)
(* these values, a restore compares them.                                  *)
(***************************************************************************)
EXTENDS Naturals

CONSTANTS Data,     \* contents a file may have; equal hashes mean equal contents
          Size,     \* length in bytes of each content
          Sound     \* the audio data of what ffmpeg can read, without tags

AudioFilesizePlaceholder == 1

\* The hash of all bytes.
sv_hasher_wholefile(d) == <<"bytes", d>>

\* The hash of the audio data alone, or nothing when ffmpeg does not understand
\* the file.
get_audio_hash_without_tags(d) == {<<"sound", Sound[e]>> : e \in {d} \cap DOMAIN Sound}

\* What ffmpeg may give for any file, and what is accepted after max_tries.
md5empty == <<"sound of nothing">>

hash256zeros == <<"zeros">>

\* separate: the setting is on and the extension is one of an audio file.
hash_of_file(d, separate) ==
    IF separate /\ get_audio_hash_without_tags(d) # {}
    THEN CHOOSE h \in get_audio_hash_without_tags(d) : TRUE
    ELSE sv_hasher_wholefile(d)

adjustfilesize_if_audio_file(d, separate) ==
    IF separate THEN AudioFilesizePlaceholder ELSE Size[d]

\* The hash was made of d, or of something that sounds the same.
Describes(h, d) == h = sv_hasher_wholefile(d) \/ h \in get_audio_hash_without_tags(d)

Hash == {hash256zeros, md5empty} \cup {sv_hasher_wholefile(d) : d \in Data}
            \cup UNION {get_audio_hash_without_tags(d) : d \in Data}
=============================================================================
